---- MODULE Spec2Model ----
(***************************************************************************)
(* A model of RipeAtlasPipeline (ripe_atlas_puller.py): the two-phase      *)
(* download / parse pipeline, its worker pools, the local file system it   *)
(* writes to and the remote archive server it reads from.                  *)
(***************************************************************************)
EXTENDS Integers, Sequences, FiniteSets, TLC

(* ------------------------------ bounds --------------------------------- *)
\* Calendar days are ordinals 1..MaxDay (day 1 is 2025-10-30).
MaxDay == 2
\* Largest worker pool size a configuration may ask for.
MaxWorkers == 2
\* Largest number of lines of an archive in the per-line specification.
MaxLines == 2
\* Number of times the same configuration is run (first run and re-runs).
MaxRuns == 2
\* Number of failures the environment inflicts on the runs: network
\* failures, disk failures and kills of the running program.
MaxFaults == 1

AllDays == 1..MaxDay

(* ------------------------- configuration ------------------------------- *)
ipv == "v4"
subtype == "builtin"
raw_dir == "data/raw_dumps"
parsed_dir == "data/parsed_dumps"
base_url == "https://ftp.ripe.net/ripe/atlas/data"

(* ------------------------- JSON values --------------------------------- *)
\* A JSON value is a tagged pair; None is Python's None (JSON null).
Num(n) == <<"num", n>>
Str(s) == <<"str", s>>
None == <<"null", 0>>
Obj(m) == <<"obj", m>>
Arr == <<"arr", 0>>

\* dict.get(key, default)
Get(m, key, default) == IF key \in DOMAIN m THEN m[key] ELSE default

\* The measurement records the model draws archive lines from.
RecHigh == [prb_id |-> Num(1), dst_addr |-> Str("a"), avg |-> Num(75), timestamp |-> Num(1)]
RecHighNoProbe == [dst_addr |-> Str("b"), avg |-> Num(75), timestamp |-> Num(2)]
RecAtThreshold == [prb_id |-> Num(2), dst_addr |-> Str("a"), avg |-> Num(50), timestamp |-> Num(3)]
RecNoAvg == [prb_id |-> Num(3), dst_addr |-> Str("a"), timestamp |-> Num(4)]
RecNullAvg == [prb_id |-> Num(4), dst_addr |-> Str("a"), avg |-> None, timestamp |-> Num(5)]
Records == {RecHigh, RecHighNoProbe, RecAtThreshold, RecNoAvg, RecNullAvg}

\* A line of text of an archive: text that is no JSON at all, or the text of
\* a JSON value (an object, or a value that is not an object).
InvalidLine == [kind |-> "invalid", val |-> None]
JsonLine(v) == [kind |-> "json", val |-> v]
NonObjectLine == JsonLine(Arr)
Lines == {InvalidLine, NonObjectLine} \cup {JsonLine(Obj(r)) : r \in Records}

\* The compressed stream of an archive, as the chunks the server sends: one
\* chunk per line, then the chunk holding the end-of-stream marker.
EOS == [kind |-> "eos", val |-> None]
Compress(lines) == lines \o <<EOS>>

SeqsUpTo(S, n) == UNION {[1..k -> S] : k \in 0..n}

\* Response bodies of the per-line specification: a body of zero bytes and
\* every archive of at most MaxLines lines.
AllBodies == {<<>>} \cup {Compress(ls) : ls \in SeqsUpTo(Lines, MaxLines)}

\* Response bodies of the pipeline specification: an archive of one kept
\* record, and an archive whose line is JSON but no object.
Catalogue ==
    { Compress(<<JsonLine(Obj(RecHigh))>>),
      Compress(<<NonObjectLine>>) }

\* What the server holds for a day: no archive (404), or a body.
NotFound == [found |-> FALSE, body |-> <<>>]
Found(b) == [found |-> TRUE, body |-> b]

(* ------------------------- dates and paths ----------------------------- *)
\* strftime: day ordinals 1, 2 are 2025-10-30 and 2025-10-31, the ordinals
\* after them are the days of 2025-11.
Pad2(k) == IF k < 10 THEN "0" \o ToString(k) ELSE ToString(k)
Year(d) == "2025"
Month(d) == IF d <= 2 THEN "10" ELSE "11"
DayOfMonth(d) == IF d <= 2 THEN Pad2(29 + d) ELSE Pad2(d - 2)
\* Mutation of DateStr: strftime('%Y-%m'), the day of the month left out.
DateStrMonthOnly(d) == Year(d) \o "-" \o Month(d)

\* target_date.strftime('%Y-%m-%d')
DateStr(d) == Year(d) \o "-" \o Month(d) \o "-" \o DayOfMonth(d)

\* Mutation of _get_date_range: range(delta.days), the end day left out.
_get_date_range_exclusive(start, end) ==
    LET delta == end - start
        n == IF delta > 0 THEN delta ELSE 0
    IN  [i \in 1..n |-> start + (i - 1)]

\* _get_date_range: start_date + i days for i in range(delta.days + 1).
_get_date_range(start, end) ==
    LET delta == end - start
        n == IF delta + 1 > 0 THEN delta + 1 ELSE 0
    IN  [i \in 1..n |-> start + (i - 1)]

\* _build_url: the URL and the file name of a day's archive.
_build_url(target_date) ==
    LET filename == <<"ping-", ipv, "-", subtype, "-", DateStr(target_date), ".bz2">>
    IN  [url |-> <<base_url, Year(target_date), Month(target_date),
                   DayOfMonth(target_date), filename>>,
         filename |-> filename]

\* os.path.join(self.raw_dir, filename)
RawPath(d) == <<raw_dir, _build_url(d).filename>>

\* filename.replace('.bz2', '_parsed.json'), joined to parsed_dir
ParsedPath(raw_path) ==
    LET filename == raw_path[2]
    IN  <<parsed_dir,
          [i \in DOMAIN filename |->
              IF filename[i] = ".bz2" THEN "_parsed.json" ELSE filename[i]]>>

RawPaths == {RawPath(d) : d \in AllDays}
ParsedPaths == {ParsedPath(p) : p \in RawPaths}
DayOf(raw_path) == CHOOSE d \in AllDays : RawPath(d) = raw_path

(* ------------------------------ files ---------------------------------- *)
Absent == [exists |-> FALSE, data |-> <<>>]
Empty == [exists |-> TRUE, data |-> <<>>]
\* os.path.getsize
Size(file) == Len(file.data)

(* --------------------------- process_dump ------------------------------ *)
\* json.loads(line)
json_loads(line) ==
    IF line.kind = "json" THEN [ok |-> TRUE, val |-> line.val]
    ELSE [ok |-> FALSE, val |-> None]

\* The dictionary appended to filtered_results (lines 87-92).
Project(record) ==
    [prb_id |-> Get(record, "prb_id", None),
     dst_addr |-> Get(record, "dst_addr", None),
     avg_rtt |-> Get(record, "avg", None),
     timestamp |-> Get(record, "timestamp", None)]

\* The body of the loop of process_dump for one line (lines 81-94): the
\* accumulator after the line, or the exception that leaves the loop.
ProcessLine(acc, line) ==
    LET parsed == json_loads(line) IN
    IF ~parsed.ok THEN [err |-> FALSE, out |-> acc]            \* JSONDecodeError: continue
    ELSE IF parsed.val[1] # "obj" THEN [err |-> TRUE, out |-> acc]  \* no .get: AttributeError
    ELSE LET record == parsed.val[2]
             avg == Get(record, "avg", Num(0))
         IN  IF avg[1] # "num" THEN [err |-> TRUE, out |-> acc]     \* None > 50: TypeError
             ELSE IF avg[2] > 50
                  THEN [err |-> FALSE, out |-> Append(acc, Project(record))]
                  ELSE [err |-> FALSE, out |-> acc]

RECURSIVE ScanLines(_, _)
ScanLines(acc, lines) ==
    IF lines = <<>> THEN [err |-> FALSE, out |-> acc]
    ELSE LET step == ProcessLine(acc, Head(lines)) IN
         IF step.err THEN step ELSE ScanLines(step.out, Tail(lines))

\* bz2.open(raw_path, "rt") and the loop over its lines (lines 79-94): the
\* lines before the end-of-stream marker are yielded; a stream that ends
\* without the marker raises EOFError after its lines were read.
ScanArchive(file) ==
    LET data == file.data
        whole == data # <<>> /\ data[Len(data)] = EOS
        lines == IF whole THEN SubSeq(data, 1, Len(data) - 1) ELSE data
        scan == ScanLines(<<>>, lines)
    IN  IF ~file.exists THEN [err |-> TRUE, out |-> <<>>]
        ELSE IF scan.err THEN scan
        ELSE IF ~whole THEN [err |-> TRUE, out |-> scan.out]
        ELSE scan

\* json.dump(filtered_results, out_f): the pieces written to the file.
Serialize(results) ==
    <<[tok |-> "[", item |-> None]>>
    \o [i \in 1..Len(results) |-> [tok |-> "item", item |-> Obj(results[i])]]
    \o <<[tok |-> "]", item |-> None]>>

(* ------------------------------ state ---------------------------------- *)
VARIABLES
    start_date, end_date, max_workers,  \* the configuration (fixed by Init)
    remote,       \* what the archive server holds for each day
    dirs,         \* TRUE once raw_dir and parsed_dir exist
    raw,          \* the files of raw_dir, by path
    parsed,       \* the files of parsed_dir, by path
    pc,           \* where the program is: construction, a phase, its end
    dl,           \* the download_dump tasks of Phase 1, by day
    raw_files,    \* execute's list of the raw paths Phase 1 returned
    pr,           \* the process_dump tasks of Phase 2, by raw path
    run,          \* number of the current invocation of execute
    prev,         \* how the previous invocation ended
    fetchHist,    \* the last two finished download_dump calls, by day
    procHist,     \* the last two finished process_dump calls, by raw path
    faults        \* the network and disk failures (io) and the kills so far

vars == <<start_date, end_date, max_workers, remote, dirs, raw, parsed, pc,
          dl, raw_files, pr, run, prev, fetchHist, procHist, faults>>

config == <<start_date, end_date, max_workers, remote>>

NoTask == [st |-> "none", res |-> "none", net |-> FALSE]
NoProc == [st |-> "none", res |-> "none", scanned |-> FALSE, wrote |-> FALSE,
           acc |-> <<>>]

\* A task that a worker has taken and has not finished.
FetchInFlight == {"request", "writing"}
ProcInFlight == {"scan", "dump"}

dates == _get_date_range(start_date, end_date)
DateSet == {dates[i] : i \in DOMAIN dates}

Running(tasks, inflight) == {k \in DOMAIN tasks : tasks[k].st \in inflight}

\* Mutation of WorkerFree: a pool that starts every submitted task at once.
WorkerFreeUnbounded(tasks, inflight) == TRUE

\* ProcessPoolExecutor(max_workers=self.max_workers): a task starts only
\* on an idle worker process.
WorkerFree(tasks, inflight) == Cardinality(Running(tasks, inflight)) < max_workers

\* The executor hands the submitted calls to its workers in the order of
\* submission: a task starts when every task submitted before it has started.
Position(order, k) == CHOOSE i \in DOMAIN order : order[i] = k
NextInQueue(tasks, order, k) ==
    \A i \in 1..(Position(order, k) - 1) : tasks[order[i]].st # "pending"

\* The environment has not used up the failures it may inflict.
MayFail == faults.io + faults.kill < MaxFaults

\* The two most recent finished calls.
Push(h, r) == IF Len(h) < 2 THEN Append(h, r) ELSE <<h[2], r>>

InitWith(windows, workers, bodies) ==
    /\ \E w \in windows : start_date = w[1] /\ end_date = w[2]
    /\ max_workers \in workers
    /\ \E served \in [DateSet -> {NotFound} \cup {Found(b) : b \in bodies}] :
          remote = [d \in AllDays |-> IF d \in DateSet THEN served[d] ELSE NotFound]
    /\ dirs = FALSE
    /\ raw = [p \in RawPaths |-> Absent]
    /\ parsed = [p \in ParsedPaths |-> Absent]
    /\ pc = "new"
    /\ dl = [d \in AllDays |-> NoTask]
    /\ raw_files = <<>>
    /\ pr = [p \in RawPaths |-> NoProc]
    /\ run = 0
    /\ prev = [status |-> "none", ok |-> FALSE]
    /\ fetchHist = [d \in AllDays |-> <<>>]
    /\ procHist = [p \in RawPaths |-> <<>>]
    /\ faults = [io |-> 0, kill |-> 0]

\* The pipeline: any window and pool size, bodies of the catalogue.
Init == InitWith(AllDays \X AllDays, 1..MaxWorkers, Catalogue)

\* One day, one worker, every archive of at most MaxLines lines.
InitLines == InitWith({<<1, 1>>}, {1}, AllBodies)

(* ----------------------------- __init__ -------------------------------- *)
\* RipeAtlasPipeline(...): parses the dates, creates the two directories.
Construct ==
    /\ pc = "new"
    /\ dirs' = TRUE
    /\ pc' = "ready"
    /\ UNCHANGED <<config, raw, parsed, dl, raw_files, pr, run, prev,
                   fetchHist, procHist, faults>>

(* ------------------------- execute, Phase 1 ---------------------------- *)
\* execute() up to line 111: one download_dump task per date is submitted.
Execute ==
    /\ pc = "ready"
    /\ run < MaxRuns
    /\ run' = run + 1
    /\ raw_files' = <<>>
    /\ dl' = [d \in AllDays |->
                IF d \in DateSet THEN [NoTask EXCEPT !.st = "pending"] ELSE NoTask]
    /\ pc' = "phase1"
    /\ UNCHANGED <<config, dirs, raw, parsed, pr, prev, fetchHist, procHist, faults>>

\* The pool keeps running the submitted tasks while execute is in Phase 1
\* or while the exception of a task waits for the pool to shut down.
Phase1Active == pc \in {"phase1", "raising"}

\* for future in as_completed(...): result = future.result() (lines 112-115).
\* as_completed yields the futures in the order they finish: a result that
\* is a path is appended to raw_files; the exception of a task that raised
\* is re-raised by future.result(), inside the with block.
Collect(result, raw_path) ==
    IF pc # "phase1" THEN UNCHANGED <<pc, raw_files>>
    ELSE IF result = "raised" THEN pc' = "raising" /\ UNCHANGED raw_files
    ELSE /\ pc' = pc
         /\ raw_files' = IF result = "path" THEN Append(raw_files, raw_path)
                         ELSE raw_files

\* A download_dump task ends: by a return value or by an exception.
FetchDone(d, result, net, file) ==
    /\ dl' = [dl EXCEPT ![d].st = "done", ![d].res = result, ![d].net = net]
    /\ fetchHist' = [fetchHist EXCEPT ![d] =
           Push(@, [res |-> result, net |-> net, nonempty |-> Size(file) > 0])]
    /\ Collect(result, RawPath(d))

\* Mutation of AlreadyDownloaded: the check without the size test.
AlreadyDownloadedExistsOnly(file) == file.exists

\* download_dump, lines 44-49: the idempotency check.
AlreadyDownloaded(file) == file.exists /\ Size(file) > 0

FetchBegin(d) ==
    /\ Phase1Active
    /\ dl[d].st = "pending"
    /\ NextInQueue(dl, dates, d)
    /\ WorkerFree(dl, FetchInFlight)
    /\ IF AlreadyDownloaded(raw[RawPath(d)])
       THEN FetchDone(d, "path", FALSE, raw[RawPath(d)])
       ELSE /\ dl' = [dl EXCEPT ![d].st = "request"]
            /\ UNCHANGED <<fetchHist, pc, raw_files>>
    /\ UNCHANGED <<config, dirs, raw, parsed, pr, run, prev, procHist, faults>>

\* requests.get(url, stream=True, timeout=30) fails below HTTP (timeout,
\* connection error): no except clause of download_dump matches, the
\* exception leaves the task.
FetchTimeout(d) ==
    /\ Phase1Active
    /\ dl[d].st = "request"
    /\ MayFail
    /\ faults' = [faults EXCEPT !.io = @ + 1]
    /\ FetchDone(d, "raised", TRUE, raw[RawPath(d)])
    /\ UNCHANGED <<config, dirs, raw, parsed, pr, run, prev, procHist>>

\* r.raise_for_status() raises HTTPError: caught, None is returned.
FetchHttpError(d) ==
    /\ Phase1Active
    /\ dl[d].st = "request"
    /\ ~remote[d].found
    /\ FetchDone(d, "None", TRUE, raw[RawPath(d)])
    /\ UNCHANGED <<config, dirs, raw, parsed, pr, run, prev, procHist, faults>>

\* Status 200, then open(raw_path, 'wb'): the file is created or truncated.
\* A body of zero bytes ends the loop over its chunks at once: raw_path is
\* returned (line 58).
FetchOpen(d) ==
    /\ Phase1Active
    /\ dl[d].st = "request"
    /\ remote[d].found
    /\ raw' = [raw EXCEPT ![RawPath(d)] = Empty]
    /\ IF remote[d].body = <<>>
       THEN FetchDone(d, "path", TRUE, Empty)
       ELSE /\ dl' = [dl EXCEPT ![d].st = "writing", ![d].net = TRUE]
            /\ UNCHANGED <<fetchHist, pc, raw_files>>
    /\ UNCHANGED <<config, dirs, parsed, pr, run, prev, procHist, faults>>

\* for chunk in r.iter_content(...): f.write(chunk); after the last chunk
\* of the body, return raw_path (line 58).
FetchChunk(d) ==
    /\ Phase1Active
    /\ dl[d].st = "writing"
    /\ Size(raw[RawPath(d)]) < Len(remote[d].body)
    /\ raw' = [raw EXCEPT ![RawPath(d)].data =
                  Append(@, remote[d].body[Size(raw[RawPath(d)]) + 1])]
    /\ IF Size(raw[RawPath(d)]) + 1 = Len(remote[d].body)
       THEN FetchDone(d, "path", TRUE, raw'[RawPath(d)])
       ELSE UNCHANGED <<dl, fetchHist, pc, raw_files>>
    /\ UNCHANGED <<config, dirs, parsed, pr, run, prev, procHist, faults>>

\* The connection fails while the body is read: iter_content raises an
\* exception that is no HTTPError; the file keeps what was written.
FetchReset(d) ==
    /\ Phase1Active
    /\ dl[d].st = "writing"
    /\ Size(raw[RawPath(d)]) < Len(remote[d].body)
    /\ MayFail
    /\ faults' = [faults EXCEPT !.io = @ + 1]
    /\ FetchDone(d, "raised", TRUE, raw[RawPath(d)])
    /\ UNCHANGED <<config, dirs, raw, parsed, pr, run, prev, procHist>>

\* The exception leaves the with block: the executor's __exit__ is
\* shutdown(wait=True), so it leaves execute once every task has finished.
ExecuteRaises ==
    /\ pc = "raising"
    /\ \A d \in DateSet : dl[d].st = "done"
    /\ \A p \in RawPaths : pr[p].st \in {"none", "done"}
    /\ pc' = "failed"
    /\ UNCHANGED <<config, dirs, raw, parsed, dl, raw_files, pr, run, prev,
                   fetchHist, procHist, faults>>

\* Mutation of Phase1Over: Phase 2 is entered at the first finished fetch.
Phase1OverPipelined == \E d \in DateSet : dl[d].st = "done"

\* The loop over as_completed has yielded every future and the with block
\* of Phase 1 has been left.
Phase1Over == \A d \in DateSet : dl[d].st = "done"

\* Lines 117-119: one process_dump task per entry of raw_files.
StartPhase2 ==
    /\ pc = "phase1"
    /\ Phase1Over
    /\ pr' = [p \in RawPaths |->
                IF \E i \in DOMAIN raw_files : raw_files[i] = p
                THEN [NoProc EXCEPT !.st = "pending"] ELSE NoProc]
    /\ pc' = "phase2"
    /\ UNCHANGED <<config, dirs, raw, parsed, dl, raw_files, run, prev,
                   fetchHist, procHist, faults>>

(* ------------------------- execute, Phase 2 ---------------------------- *)
\* The pool keeps running the submitted tasks while execute is in Phase 2
\* or while the exception of a process task waits for the pool to shut down.
Phase2Active ==
    \/ pc = "phase2"
    \/ pc = "raising" /\ \E p \in RawPaths : pr[p].st # "none"

\* for future in as_completed(...): future.result() (lines 120-121): the
\* exception of a task that raised is re-raised inside the with block.
ProcDone(p, result, file) ==
    /\ pc' = IF result = "raised" THEN "raising" ELSE pc
    /\ pr' = [pr EXCEPT ![p].st = "done", ![p].res = result]
    /\ procHist' = [procHist EXCEPT ![p] =
           Push(@, [res |-> result, scanned |-> pr[p].scanned,
                    wrote |-> pr[p].wrote, present |-> file.exists])]

\* Mutation of AlreadyParsed: the check is missing.
AlreadyParsedNever(file) == FALSE

\* Mutation of AlreadyParsed: the check with the size test of download_dump.
AlreadyParsedNonEmpty(file) == file.exists /\ Size(file) > 0

\* process_dump, lines 65-74: the idempotency check.
AlreadyParsed(file) == file.exists

ProcBegin(p) ==
    /\ Phase2Active
    /\ pr[p].st = "pending"
    /\ NextInQueue(pr, raw_files, p)
    /\ WorkerFree(pr, ProcInFlight)
    /\ IF AlreadyParsed(parsed[ParsedPath(p)])
       THEN ProcDone(p, "path", parsed[ParsedPath(p)])
       ELSE /\ pr' = [pr EXCEPT ![p].st = "scan"]
            /\ UNCHANGED <<pc, procHist>>
    /\ UNCHANGED <<config, dirs, raw, parsed, dl, raw_files, run, prev,
                   fetchHist, faults>>

\* Mutation of OnProcessError: the handler is missing, the exception
\* leaves the task.
OnProcessErrorRaise == "raised"

\* Lines 101-103: except Exception: print, return None. The result of a
\* process_dump task in which the pass or the write raised.
OnProcessError == "None"

\* Lines 76-97: the pass over the archive; an exception of the pass is
\* caught at line 101 and None is returned; otherwise parsed_path is
\* opened for writing, which creates the file.
ProcScan(p) ==
    /\ Phase2Active
    /\ pr[p].st = "scan"
    /\ LET scan == ScanArchive(raw[p]) IN
       IF scan.err
       THEN /\ pc' = IF OnProcessError = "raised" THEN "raising" ELSE pc
            /\ pr' = [pr EXCEPT ![p].st = "done", ![p].res = OnProcessError,
                                ![p].scanned = TRUE]
            /\ procHist' = [procHist EXCEPT ![p] =
                   Push(@, [res |-> OnProcessError, scanned |-> TRUE,
                            wrote |-> FALSE,
                            present |-> parsed[ParsedPath(p)].exists])]
            /\ UNCHANGED parsed
       ELSE /\ pr' = [pr EXCEPT ![p].st = "dump", ![p].scanned = TRUE,
                                ![p].wrote = TRUE, ![p].acc = Serialize(scan.out)]
            /\ parsed' = [parsed EXCEPT ![ParsedPath(p)] = Empty]
            /\ UNCHANGED <<pc, procHist>>
    /\ UNCHANGED <<config, dirs, raw, dl, raw_files, run, prev, fetchHist, faults>>

\* json.dump writes the next piece of the document; after the last piece
\* the file is closed and parsed_path is returned (line 100).
ProcWrite(p) ==
    /\ Phase2Active
    /\ pr[p].st = "dump"
    /\ Size(parsed[ParsedPath(p)]) < Len(pr[p].acc)
    /\ parsed' = [parsed EXCEPT ![ParsedPath(p)].data =
                     Append(@, pr[p].acc[Size(parsed[ParsedPath(p)]) + 1])]
    /\ IF Size(parsed[ParsedPath(p)]) + 1 = Len(pr[p].acc)
       THEN ProcDone(p, "path", parsed'[ParsedPath(p)])
       ELSE UNCHANGED <<pc, pr, procHist>>
    /\ UNCHANGED <<config, dirs, raw, dl, raw_files, run, prev, fetchHist, faults>>

\* A write fails (disk full, I/O error): caught at line 101, None is
\* returned; the file keeps what was written.
ProcWriteError(p) ==
    /\ Phase2Active
    /\ pr[p].st = "dump"
    /\ Size(parsed[ParsedPath(p)]) < Len(pr[p].acc)
    /\ ProcDone(p, OnProcessError, parsed[ParsedPath(p)])
    /\ MayFail
    /\ faults' = [faults EXCEPT !.io = @ + 1]
    /\ UNCHANGED <<config, dirs, raw, parsed, dl, raw_files, run, prev, fetchHist>>

Submitted(p) == pr[p].st # "none"

\* Lines 120-123: as_completed has yielded every future of Phase 2 (none of
\* them raises), the with block is left, execute returns.
Finish ==
    /\ pc = "phase2"
    /\ \A p \in RawPaths : Submitted(p) => pr[p].st = "done"
    /\ pc' = "complete"
    /\ UNCHANGED <<config, dirs, raw, parsed, dl, raw_files, pr, run, prev,
                   fetchHist, procHist, faults>>

(* ----------------------- interruption and re-run ----------------------- *)
\* The run is killed while execute is running: the tasks in flight end
\* where they are and the files stay as they are.
Interrupt ==
    /\ pc \in {"phase1", "raising", "phase2"}
    /\ MayFail
    /\ faults' = [faults EXCEPT !.kill = @ + 1]
    /\ pc' = "interrupted"
    /\ fetchHist' = [d \in AllDays |->
                       IF dl[d].st \in FetchInFlight THEN <<>> ELSE fetchHist[d]]
    /\ procHist' = [p \in RawPaths |->
                       IF pr[p].st \in ProcInFlight THEN <<>> ELSE procHist[p]]
    /\ dl' = [d \in AllDays |-> NoTask]
    /\ pr' = [p \in RawPaths |-> NoProc]
    /\ raw_files' = <<>>
    /\ UNCHANGED <<config, dirs, raw, parsed, run, prev>>

\* Every day of the window was fetched to a non-empty raw file and every
\* raw file was processed to an output path.
RunAllOk ==
    /\ pc = "complete"
    /\ \A d \in DateSet :
          /\ dl[d].res = "path"
          /\ Size(raw[RawPath(d)]) > 0
          /\ pr[RawPath(d)].res = "path"

\* The same configuration is invoked again (the __main__ block is run
\* again): a new process, the files of the earlier runs on disk.
Rerun ==
    /\ pc \in {"complete", "failed", "interrupted"}
    /\ run < MaxRuns
    /\ prev' = [status |-> pc, ok |-> RunAllOk]
    /\ pc' = "new"
    /\ dl' = [d \in AllDays |-> NoTask]
    /\ pr' = [p \in RawPaths |-> NoProc]
    /\ raw_files' = <<>>
    /\ UNCHANGED <<config, dirs, raw, parsed, run, fetchHist, procHist, faults>>

(* --------------------------- specification ----------------------------- *)
Next ==
    \/ Construct
    \/ Execute
    \/ \E d \in AllDays : FetchBegin(d)
    \/ \E d \in AllDays : FetchTimeout(d)
    \/ \E d \in AllDays : FetchHttpError(d)
    \/ \E d \in AllDays : FetchOpen(d)
    \/ \E d \in AllDays : FetchChunk(d)
    \/ \E d \in AllDays : FetchReset(d)
    \/ ExecuteRaises
    \/ StartPhase2
    \/ \E p \in RawPaths : ProcBegin(p)
    \/ \E p \in RawPaths : ProcScan(p)
    \/ \E p \in RawPaths : ProcWrite(p)
    \/ \E p \in RawPaths : ProcWriteError(p)
    \/ Finish
    \/ Interrupt
    \/ Rerun

Spec == Init /\ [][Next]_vars

SpecLines == InitLines /\ [][Next]_vars

TypeOK ==
    /\ pc \in {"new", "ready", "phase1", "raising", "failed", "phase2",
               "complete", "interrupted"}
    /\ run \in 0..MaxRuns
    /\ \A d \in AllDays : dl[d].st \in {"none", "pending", "request", "writing", "done"}
    /\ \A p \in RawPaths : pr[p].st \in {"none", "pending", "scan", "dump", "done"}

(* ------------------------------ claims --------------------------------- *)
Started(p) == pr[p].st \in {"scan", "dump", "done"}
FetchFinished(d) == dl[d].st = "done"

\* C1: execute() never fails as a unit: whatever the per-day fetch results
\* and per-archive process results, no exception leaves execute().
C1_ExecuteNeverFails == pc # "failed"

\* C2: if any process_dump task has started, no download_dump task is
\* pending or in flight.
C2_PhaseBoundary ==
    (\E p \in RawPaths : Started(p)) =>
        \A d \in AllDays : dl[d].st \in {"none", "done"}

\* A process task is in flight in a run over a window of two days or more.
C2_Witness ==
    /\ Len(dates) >= 2
    /\ \E p \in RawPaths : pr[p].st \in ProcInFlight

\* C3: the number of fetch tasks in flight and the number of process tasks
\* in flight never exceed max_workers.
C3_PoolBound ==
    /\ Cardinality(Running(dl, FetchInFlight)) <= max_workers
    /\ Cardinality(Running(pr, ProcInFlight)) <= max_workers

\* Every worker is busy with a fetch while another fetch task waits.
C3_Witness ==
    /\ Cardinality(Running(dl, FetchInFlight)) = max_workers
    /\ \E d \in AllDays : dl[d].st = "pending"

\* C4 (as claimed): the second of two download_dump calls in sequence for
\* the same day does no network I/O and returns the raw path.
C4_SecondFetchNoNetwork ==
    \A d \in AllDays :
        Len(fetchHist[d]) = 2 =>
            ~fetchHist[d][2].net /\ fetchHist[d][2].res = "path"

\* C4 (amended): the second of two download_dump calls in sequence does no
\* network I/O and returns the raw path when the first call left a file of
\* size greater than zero at the raw path; when the first call left no file
\* or a file of size zero, the second call does network I/O again.
C4_SecondFetchSkipsNonEmpty ==
    \A d \in AllDays :
        Len(fetchHist[d]) = 2 =>
            /\ fetchHist[d][2].net <=> ~fetchHist[d][1].nonempty
            /\ fetchHist[d][1].nonempty => fetchHist[d][2].res = "path"

\* A first call fetched a non-empty body over the network, a second call
\* for the same day returned the path without network I/O.
C4_Witness ==
    \E d \in AllDays :
        /\ Len(fetchHist[d]) = 2
        /\ fetchHist[d][1] = [res |-> "path", net |-> TRUE, nonempty |-> TRUE]
        /\ fetchHist[d][2] = [res |-> "path", net |-> FALSE, nonempty |-> TRUE]

\* C5: after a fetch that failed (None returned, or an exception), the raw
\* path is absent or holds the complete archive.
C5_NoPartialRawAfterFailure ==
    \A d \in AllDays :
        (FetchFinished(d) /\ dl[d].res \in {"None", "raised"}) =>
            \/ ~raw[RawPath(d)].exists
            \/ remote[d].found /\ raw[RawPath(d)].data = remote[d].body

\* The files an uninterrupted run without network or disk failures leaves
\* for a day.
CleanRaw(d) ==
    IF remote[d].found THEN [exists |-> TRUE, data |-> remote[d].body] ELSE Absent
CleanParsed(d) ==
    IF remote[d].found /\ ~ScanArchive(CleanRaw(d)).err
    THEN [exists |-> TRUE, data |-> Serialize(ScanArchive(CleanRaw(d)).out)]
    ELSE Absent

\* C6: when the only disturbances were kills of the running program, a run
\* that completes leaves every raw file and every parsed output as an
\* uninterrupted run would have left them.
C6_ResumeEqualsCleanRun ==
    (pc = "complete" /\ faults.io = 0) =>
        \A d \in DateSet :
            /\ raw[RawPath(d)] = CleanRaw(d)
            /\ parsed[ParsedPath(RawPath(d))] = CleanParsed(d)

NoNetworkNoPass ==
    /\ \A d \in AllDays : ~dl[d].net
    /\ \A p \in RawPaths : ~pr[p].scanned

\* C7 (as claimed): a run after a run that completed both phases does no
\* network request and no decompression pass.
C7_RerunDoesNothing == prev.status = "complete" => NoNetworkNoPass

\* C7 (amended): a run after a run that completed both phases, in which
\* every day was fetched to a non-empty raw file and every raw file was
\* processed to an output path, does no network request and no
\* decompression pass.
C7_RerunAfterAllOkDoesNothing == prev.ok => NoNetworkNoPass

\* The re-run of a window of two days whose first run fetched and processed
\* both days has completed.
C7_Witness ==
    /\ prev.ok
    /\ pc = "complete"
    /\ Len(dates) >= 2
    /\ \A d \in DateSet : dl[d].res = "path" /\ pr[RawPath(d)].res = "path"

\* C8: after a process_dump call, the output path holds the serialization
\* of the whole filtered set, or, when the call returned None, no file.
C8_NoPartialOutput ==
    \A p \in RawPaths :
        pr[p].st = "done" =>
            IF pr[p].res = "None"
            THEN ~parsed[ParsedPath(p)].exists
            ELSE /\ ~ScanArchive(raw[p]).err
                 /\ parsed[ParsedPath(p)] =
                       [exists |-> TRUE, data |-> Serialize(ScanArchive(raw[p]).out)]

\* C9 (as claimed): the second of two process_dump calls in sequence for
\* the same raw path does no decompression pass.
C9_SecondProcessNoPass ==
    \A p \in RawPaths :
        Len(procHist[p]) = 2 => ~procHist[p][2].scanned

\* C9 (amended): the second of two process_dump calls in sequence does no
\* pass, does not open the output and returns the output path when the
\* first call left a file at the output path; when the first call left no
\* output file, the second call does the pass again.
C9_SecondProcessSkipsPresent ==
    \A p \in RawPaths :
        Len(procHist[p]) = 2 =>
            /\ procHist[p][2].scanned <=> ~procHist[p][1].present
            /\ procHist[p][1].present =>
                  procHist[p][2].res = "path" /\ ~procHist[p][2].wrote

\* A first call did the pass and wrote the output, a second call for the
\* same raw path returned the output path without a pass.
C9_Witness ==
    \E p \in RawPaths :
        /\ Len(procHist[p]) = 2
        /\ procHist[p][1] = [res |-> "path", scanned |-> TRUE, wrote |-> TRUE,
                             present |-> TRUE]
        /\ procHist[p][2] = [res |-> "path", scanned |-> FALSE, wrote |-> FALSE,
                             present |-> TRUE]

\* A line that is a record with a numeric metric above the threshold.
KeptLine(line) ==
    /\ line.kind = "json"
    /\ line.val[1] = "obj"
    /\ "avg" \in DOMAIN line.val[2]
    /\ line.val[2]["avg"][1] = "num"
    /\ line.val[2]["avg"][2] > 50

\* A record whose metric is present and is no number.
BadMetricLine(line) ==
    /\ line.kind = "json"
    /\ line.val[1] = "obj"
    /\ "avg" \in DOMAIN line.val[2]
    /\ line.val[2]["avg"][1] # "num"

\* C10: when process_dump has scanned a complete archive (all of whose
\* records have a numeric or missing metric) and no write failed, the
\* output holds the projection of every record that passes the filter,
\* whatever malformed lines the archive has.
C10_MalformedLineNotFatal ==
    \A p \in RawPaths :
        LET body == remote[DayOf(p)].body
            out == parsed[ParsedPath(p)]
        IN  ( /\ pr[p].st = "done"
              /\ pr[p].scanned
              /\ faults.io = 0
              /\ remote[DayOf(p)].found
              /\ body # <<>>
              /\ raw[p].data = body
              /\ \A i \in DOMAIN body : ~BadMetricLine(body[i]) )
            => \A i \in DOMAIN body :
                   KeptLine(body[i]) =>
                       /\ out.exists
                       /\ \E j \in DOMAIN out.data :
                             out.data[j] = [tok |-> "item",
                                            item |-> Obj(Project(body[i].val[2]))]

\* A line that is a record (a JSON object).
RecordLine(line) == line.kind = "json" /\ line.val[1] = "obj"

\* The metric of a record is a number above the threshold; a missing metric
\* counts as 0.
MetricAbove(record) ==
    LET metric == Get(record, "avg", Num(0))
    IN  metric[1] = "num" /\ metric[2] > 50

\* The output document holds the projection of the record.
InOutput(out, record) ==
    /\ out.exists
    /\ \E j \in DOMAIN out.data :
          out.data[j] = [tok |-> "item", item |-> Obj(Project(record))]

\* C11: when process_dump has scanned a complete archive of records and no
\* write failed, a record appears in the output exactly when its metric is
\* above 50, whatever the other records of the archive are.
C11_FilterByMetricOnly ==
    \A p \in RawPaths :
        LET body == remote[DayOf(p)].body
            lines == SubSeq(body, 1, Len(body) - 1)
        IN  ( /\ pr[p].st = "done"
              /\ pr[p].scanned
              /\ faults.io = 0
              /\ remote[DayOf(p)].found
              /\ body # <<>>
              /\ raw[p].data = body
              /\ \A i \in DOMAIN lines : RecordLine(lines[i]) )
            => \A i \in DOMAIN lines :
                   MetricAbove(lines[i].val[2])
                       <=> InOutput(parsed[ParsedPath(p)], lines[i].val[2])

\* The raw paths for which Phase 2 has a process_dump task.
Dispatched == {p \in RawPaths : Submitted(p)}

\* The raw paths that the download_dump tasks of the run returned.
FetchedPaths == {RawPath(d) : d \in {e \in DateSet : dl[e].res = "path"}}

\* C12: once Phase 1 of a run is over (Phase 2 running, or execute left),
\* the process tasks of the run are exactly one per raw path returned by a
\* fetch of the run: none for a day not found or that failed in transit.
C12_Phase2ProcessesFetched ==
    pc \in {"phase2", "complete", "failed"} => Dispatched = FetchedPaths

\* C13: a network failure of a fetch is returned by download_dump as an
\* outcome: no download_dump task ends by raising.
C13_TransientErrorReturned ==
    \A d \in AllDays : FetchFinished(d) => dl[d].res # "raised"

\* A process_dump task that ended without an output path.
ProcFailed(p) == pr[p].st = "done" /\ pr[p].res # "path"

\* C14: a process_dump task in which reading, decompressing or writing
\* failed ends with the outcome None of that task; execute stays in Phase 2,
\* every sibling task in flight can still take its next step, and execute
\* returns from Phase 2 only when every dispatched task has an outcome.
C14_ProcessFailureIsolated ==
    \A p \in RawPaths :
        ProcFailed(p) =>
            /\ pr[p].res = "None"
            /\ pc \in {"phase2", "complete"}
            /\ \A q \in RawPaths :
                  /\ pr[q].st = "scan" => ENABLED ProcScan(q)
                  /\ pr[q].st = "dump" => ENABLED ProcWrite(q)
                  /\ (pc = "complete" /\ Submitted(q)) => pr[q].st = "done"

\* A task has failed and a sibling task, started after it, is running.
C14_Witness ==
    \E p, q \in RawPaths :
        /\ ProcFailed(p)
        /\ pr[q].st \in ProcInFlight

\* The days that have a download_dump task in the run.
FetchTasks == {d \in AllDays : dl[d].st # "none"}

\* C15: for start_date <= end_date the date list has end - start + 1 days,
\* strictly ascending (hence distinct), the first is start_date and the last
\* is end_date; while Phase 1 runs there is one fetch task per such day and
\* none for any other day.
C15_DateRangeInclusive ==
    start_date <= end_date =>
        /\ Len(dates) = end_date - start_date + 1
        /\ dates[1] = start_date
        /\ dates[Len(dates)] = end_date
        /\ \A i \in 1..(Len(dates) - 1) : dates[i + 1] = dates[i] + 1
        /\ Phase1Active => FetchTasks = start_date..end_date

\* execute has just submitted the fetch tasks of a window of several days.
C15_Witness ==
    /\ start_date < end_date
    /\ pc = "phase1"
    /\ \A d \in start_date..end_date : dl[d].st = "pending"

\* C16: a window with start_date > end_date is rejected at construction: no
\* directory is created and the pipeline never becomes ready, so no phase of
\* execute starts and no task is dispatched.
C16_InvalidRangeRejected ==
    start_date > end_date =>
        /\ ~dirs
        /\ pc = "new"
        /\ FetchTasks = {}

\* A file of size zero is at the raw path of the day.
ZeroSizeRaw(d) == raw[RawPath(d)].exists /\ Size(raw[RawPath(d)]) = 0

\* C17: every download_dump call that starts while a file of size zero is
\* at the raw path goes on to the network request and does not return at
\* the idempotency check, in the first run and in every later one.
C17_ZeroSizeRawRetried ==
    [][\A d \in AllDays :
          ( /\ dl[d].st = "pending"
            /\ dl'[d].st \in {"request", "done"}
            /\ ZeroSizeRaw(d) )
          => dl'[d].st = "request"]_vars

\* A call found a file of size zero left by an earlier run and is at its
\* network request.
C17_Witness ==
    \E d \in AllDays :
        /\ dl[d].st = "request"
        /\ ZeroSizeRaw(d)
        /\ run >= 2

\* The local paths a task in flight reads into or writes.
FetchTarget(d) == RawPath(d)
ProcTarget(p) == ParsedPath(p)

\* C18: within a run no two tasks in flight have the same target. The days
\* of the window are distinct and, as seen when the pipeline is constructed,
\* map to distinct raw paths and these to distinct output paths, in a
\* directory that is not the raw directory; the raw paths handed to Phase 2
\* are distinct; so two tasks in flight never write one file.
C18_NoSharedTarget ==
    /\ \A i, j \in DOMAIN dates : i < j => dates[i] # dates[j]
    /\ \A i, j \in DOMAIN raw_files : i < j => raw_files[i] # raw_files[j]
    /\ pc = "ready" =>
          /\ raw_dir # parsed_dir
          /\ \A d, e \in DateSet :
                d # e =>
                    /\ FetchTarget(d) # FetchTarget(e)
                    /\ ProcTarget(RawPath(d)) # ProcTarget(RawPath(e))
    /\ \A d, e \in Running(dl, FetchInFlight) :
          d # e => FetchTarget(d) # FetchTarget(e)
    /\ \A p, q \in Running(pr, ProcInFlight) :
          p # q => ProcTarget(p) # ProcTarget(q)

\* Two download_dump tasks are writing their raw files at the same time.
C18_Witness ==
    \E d, e \in DateSet :
        /\ d # e
        /\ dl[d].st = "writing"
        /\ dl[e].st = "writing"

\* C19: a file at an output path is changed only by the process_dump call
\* that created it, while that call is writing it: in every other step of
\* every run it stays as it is, complete or not. A raw file of size greater
\* than zero is changed only by the download_dump call that is writing it.
C19_FilesKept ==
    [][\A p \in RawPaths :
          /\ (parsed[ParsedPath(p)].exists /\ pr[p].st # "dump")
                => parsed'[ParsedPath(p)] = parsed[ParsedPath(p)]
          /\ (Size(raw[p]) > 0 /\ dl[DayOf(p)].st # "writing")
                => raw'[p] = raw[p]]_vars

\* A later run has returned the path of an output file that an earlier run
\* left incomplete, without a pass and without a write.
C19_Witness ==
    \E p \in RawPaths :
        /\ run >= 2
        /\ pr[p].st = "done"
        /\ pr[p].res = "path"
        /\ ~pr[p].scanned
        /\ Size(raw[p]) > 0
        /\ ~ScanArchive(raw[p]).err
        /\ parsed[ParsedPath(p)].data # Serialize(ScanArchive(raw[p]).out)

====
